---- MODULE Spec2Model ----
(***************************************************************************)
(* Model of the EcoCode hotspot analysis engine (src/backend/main.py).     *)
(*                                                                         *)
(* A request carries source text.  ast.parse is an external collaborator,  *)
(* so a request is modelled by what ast.parse makes of it: a syntax tree,  *)
(* a SyntaxError (lineno, msg) or another exception (msg).                 *)
(*                                                                         *)
(* A syntax tree is a sequence of nodes numbered in pre-order; node 0 is   *)
(* the ast.Module root and is implicit.  Each node records its kind, its   *)
(* parent, and the fields the detectors read: FunctionDef.name, for a Call *)
(* the class of node.func (Name / Attribute) with its id / attr, and for   *)
(* an AugAssign the class of node.op.  The children of a node, in the      *)
(* order ast.iter_child_nodes yields them, are the nodes naming it as      *)
(* parent, in ascending number.                                            *)
(***************************************************************************)
EXTENDS Integers, Sequences, FiniteSets, TLC

VARIABLES req, hashseed, pc, function_nodes, hotspots, response, prev, runs

vars == <<req, hashseed, pc, function_nodes, hotspots, response, prev, runs>>

(***************************************************************************)
(* Bounds of the input space.                                              *)
(***************************************************************************)
MaxLoopNodes == 4     \* nodes of the trees over functions, loops, conditionals
MaxFuncNodes == 4     \* nodes of the trees over two function names and a loop
MaxCallNodes == 3     \* nodes of the trees over functions and calls
MaxIssueNodes == 3    \* nodes of the trees over loops and loop anti-patterns
MaxChainDepth == 4    \* loops nested in the chain-shaped functions
MaxLine == 2          \* line numbers a SyntaxError may carry
MaxRuns == 2          \* invocations of analyze on one request

(***************************************************************************)
(* Syntax nodes.                                                           *)
(***************************************************************************)
Node(kind, func, name) == [kind |-> kind, func |-> func, name |-> name, parent |-> 0]

FunctionDef(name) == Node("FunctionDef", "", name)
For == Node("For", "", "")
While == Node("While", "", "")
If == Node("If", "", "")
CallName(id) == Node("Call", "Name", id)
CallAttr(attr) == Node("Call", "Attribute", attr)
AugAssign(op) == Node("AugAssign", "", op)

\* Statements occur only in the body of the module, a function, a loop or a
\* conditional; a call is an expression and occurs anywhere.
IsStmt(n) == n.kind \in {"FunctionDef", "For", "While", "If", "AugAssign"}

IsBlock(t, i) == IF i = 0 THEN TRUE ELSE t[i].kind \in {"FunctionDef", "For", "While", "If"}

RECURSIVE Ancestors(_, _)
Ancestors(t, i) == IF i = 0 THEN {0} ELSE {i} \cup Ancestors(t, t[i].parent)

\* The shapes of the trees of n nodes: in pre-order numbering the parent of
\* the next node lies on the path from the last node up to the root.
RECURSIVE ShapesOfSize(_)
ShapesOfSize(n) ==
  IF n = 0 THEN {<<>>}
  ELSE UNION { { Append(p, [parent |-> q]) : q \in Ancestors(p, Len(p)) } :
               p \in ShapesOfSize(n - 1) }

MkTree(p, l) == [k \in 1..Len(p) |-> [l[k] EXCEPT !.parent = p[k].parent]]

WellFormed(t) == \A k \in 1..Len(t) : IsStmt(t[k]) => IsBlock(t, t[k].parent)

\* A function f whose body is a chain of d nested loops; the statements and
\* calls of leaves sit either in the innermost loop or, when inLoop is
\* FALSE, in the function body beside the outermost loop.
RECURSIVE LoopChain(_, _)
LoopChain(loop, d) ==
  IF d = 0 THEN <<>>
  ELSE Append(LoopChain(loop, d - 1), [loop EXCEPT !.parent = d])

Chain(loop, d, leaves, inLoop) ==
  <<FunctionDef("f")>> \o LoopChain(loop, d)
    \o [k \in 1..Len(leaves) |-> [leaves[k] EXCEPT !.parent = IF inLoop THEN d + 1 ELSE 1]]

RECURSIVE SeqOfSet(_)
SeqOfSet(S) ==
  IF S = {} THEN <<>>
  ELSE LET x == CHOOSE y \in S : TRUE IN <<x>> \o SeqOfSet(S \ {x})

LoopAlphabet == {FunctionDef("f"), While, If}
FuncAlphabet == {FunctionDef("f"), FunctionDef("g"), While}
CallAlphabet == {FunctionDef("f"), CallName("f"), CallAttr("f"), CallName("sorted"),
                 CallName("open"), CallAttr("open"), CallAttr("sort")}
IssueAlphabet == {FunctionDef("f"), For, While, AugAssign("Add"), AugAssign("Sub"),
                  CallAttr("append")}
ChainLeaves == {CallName("f"), CallName("sorted"), CallName("open"), CallName("print"),
                CallAttr("sort"), CallName("sort"), CallAttr("append"), AugAssign("Add")}

\* What ast.parse raises.  A SyntaxError carries e.lineno and e.msg; for
\* source text containing a null byte e.lineno is None, written 0 here.
SyntaxErrors ==
  { [lineno |-> l, msg |-> "invalid syntax"] : l \in 1..MaxLine }
    \cup { [lineno |-> 0, msg |-> "source code string cannot contain null bytes"] }

OtherErrors == {"maximum recursion depth exceeded", "compile() arg 1 must be a string"}

Parsed(t) == [outcome |-> "ok", tree |-> t, lineno |-> 0, msg |-> ""]

Failures ==
  { [outcome |-> "SyntaxError", tree |-> <<>>, lineno |-> e.lineno, msg |-> e.msg] :
      e \in SyntaxErrors }
    \cup { [outcome |-> "Exception", tree |-> <<>>, lineno |-> 0, msg |-> m] :
             m \in OtherErrors }

\* r is the request of a source text whose tree has up to max nodes of A.
RequestOver(A, max, r) ==
  \E n \in 0..max : \E p \in ShapesOfSize(n) : \E l \in [1..n -> A] :
    WellFormed(MkTree(p, l)) /\ r = Parsed(MkTree(p, l))

ChainRequest(r) ==
  \/ r \in Failures
  \/ \E d \in 0..MaxChainDepth : \E L \in SUBSET ChainLeaves : \E b \in BOOLEAN :
       r = Parsed(Chain(While, d, SeqOfSet(L), b))

Request(r) ==
  \/ ChainRequest(r)
  \/ RequestOver(LoopAlphabet, MaxLoopNodes, r)
  \/ RequestOver(FuncAlphabet, MaxFuncNodes, r)
  \/ RequestOver(CallAlphabet, MaxCallNodes, r)
  \/ RequestOver(IssueAlphabet, MaxIssueNodes, r)

(***************************************************************************)
(* Traversal.                                                              *)
(***************************************************************************)
RECURSIVE ChildrenFrom(_, _, _)
ChildrenFrom(t, i, j) ==
  IF j > Len(t) THEN <<>>
  ELSE (IF t[j].parent = i THEN <<j>> ELSE <<>>) \o ChildrenFrom(t, i, j + 1)

iter_child_nodes(t, i) == ChildrenFrom(t, i, i + 1)

\* ast.walk: a queue of nodes; pop the first, append its children, yield it.
RECURSIVE WalkQueue(_, _)
WalkQueue(t, todo) ==
  IF todo = <<>> THEN <<>>
  ELSE <<Head(todo)>> \o WalkQueue(t, Tail(todo) \o iter_child_nodes(t, Head(todo)))

walk(t, i) == WalkQueue(t, <<i>>)

IsLoop(t, i) == i # 0 /\ t[i].kind \in {"For", "While"}

IsNameCall(t, i) == i # 0 /\ t[i].kind = "Call" /\ t[i].func = "Name"

IsAttrCall(t, i) == i # 0 /\ t[i].kind = "Call" /\ t[i].func = "Attribute"

SetMax(S) == CHOOSE x \in S : \A y \in S : y <= x

Range(s) == { s[k] : k \in 1..Len(s) }

(***************************************************************************)
(* The detectors.                                                          *)
(***************************************************************************)
\* Variant: only ast.For counts as a loop.
RECURSIVE visit_for_only(_, _, _)
visit_for_only(t, node, depth) ==
  LET isFor == node # 0 /\ t[node].kind = "For"
      d == IF isFor THEN depth + 1 ELSE depth
      here == IF isFor THEN d ELSE 0
      kids == iter_child_nodes(t, node)
  IN SetMax({here} \cup { visit_for_only(t, kids[k], d) : k \in 1..Len(kids) })

\* visit(node, depth): the largest value max_depth is raised to in the
\* subtree of node, 0 when it is never raised.
RECURSIVE visit(_, _, _)
visit(t, node, depth) ==
  LET d == IF IsLoop(t, node) THEN depth + 1 ELSE depth
      here == IF IsLoop(t, node) THEN d ELSE 0
      kids == iter_child_nodes(t, node)
  IN SetMax({here} \cup { visit(t, kids[k], d) : k \in 1..Len(kids) })

get_max_loop_depth(t, fn) == visit(t, fn, 0)
\* Variant: the callee's class is not tested, so obj.f(...) counts as well.
is_recursive_any_callee(t, fn) ==
  \E n \in Range(walk(t, fn)) : n # 0 /\ t[n].kind = "Call" /\ t[n].name = t[fn].name

is_recursive(t, fn) ==
  \E n \in Range(walk(t, fn)) : IsNameCall(t, n) /\ t[n].name = t[fn].name

EXPENSIVE_FUNCS == {"sorted", "open", "print"}

\* The labels one node appends to found.
ExpensiveLabels(t, n) ==
  (IF IsNameCall(t, n) /\ t[n].name \in EXPENSIVE_FUNCS THEN <<t[n].name>> ELSE <<>>)
    \o (IF IsAttrCall(t, n) /\ t[n].name = "sort" THEN <<"sort()">> ELSE <<>>)

RECURSIVE Flatten(_)
Flatten(ss) == IF ss = <<>> THEN <<>> ELSE Head(ss) \o Flatten(Tail(ss))

ExpensiveFound(t, fn) ==
  LET w == walk(t, fn) IN Flatten([k \in 1..Len(w) |-> ExpensiveLabels(t, w[k])])

\* The labels one descendant of a loop appends to issues.
IssueLabels(t, c) ==
  (IF c # 0 /\ t[c].kind = "AugAssign" /\ t[c].name = "Add"
     THEN <<"string concatenation in loop (+=)">> ELSE <<>>)
    \o (IF IsAttrCall(t, c) /\ t[c].name = "append"
          THEN <<"list append in loop (.append)">> ELSE <<>>)

LoopIssuesIn(t, loop) ==
  LET w == walk(t, loop) IN Flatten([k \in 1..Len(w) |-> IssueLabels(t, w[k])])
\* Variant: the patterns are looked for in the whole function, not per loop.
IssuesFound_anywhere(t, fn) == LoopIssuesIn(t, fn)

IssuesFound(t, fn) ==
  LET w == walk(t, fn)
  IN Flatten([k \in 1..Len(w) |-> IF IsLoop(t, w[k]) THEN LoopIssuesIn(t, w[k]) ELSE <<>>])

\* list(set(xs)): the elements of xs once each, in the iteration order of a
\* set of strings.  That order follows the strings' hashes, which are salted
\* per interpreter process; Seeds abstracts the salt to the label orders it
\* can produce.
Seeds == {0, 1}

LabelRank(l) ==
  CASE l = "sorted" -> 1
    [] l = "open" -> 2
    [] l = "print" -> 3
    [] l = "sort()" -> 4
    [] l = "string concatenation in loop (+=)" -> 5
    [] l = "list append in loop (.append)" -> 6

HashOrder(seed, a, b) ==
  IF seed = 0 THEN LabelRank(a) <= LabelRank(b) ELSE LabelRank(b) <= LabelRank(a)

RECURSIVE SetIteration(_, _)
SetIteration(S, seed) ==
  IF S = {} THEN <<>>
  ELSE LET x == CHOOSE y \in S : \A z \in S : HashOrder(seed, y, z)
       IN <<x>> \o SetIteration(S \ {x}, seed)

list_set(xs, seed) == SetIteration(Range(xs), seed)
\* Variant: found is returned as collected, without list(set(...)).
detect_expensive_calls_no_dedup(t, fn, seed) == ExpensiveFound(t, fn)

detect_expensive_calls(t, fn, seed) == list_set(ExpensiveFound(t, fn), seed)

detect_loop_issues(t, fn, seed) == list_set(IssuesFound(t, fn), seed)

(***************************************************************************)
(* analyze: extraction, scoring, reasons, category, sorting.               *)
(***************************************************************************)
IsFunctionDef(t, i) == i # 0 /\ t[i].kind = "FunctionDef"
\* Variant: the functions are collected by a depth-first pre-order visit.
ExtractFunctions_preorder(t) ==
  LET F[k \in 0..Len(t)] ==
        IF k = 0 THEN <<>>
        ELSE IF IsFunctionDef(t, k) THEN Append(F[k - 1], k) ELSE F[k - 1]
  IN F[Len(t)]

ExtractFunctions(t) ==
  LET w == walk(t, 0)
      F[k \in 0..Len(w)] ==
        IF k = 0 THEN <<>>
        ELSE IF IsFunctionDef(t, w[k]) THEN Append(F[k - 1], w[k]) ELSE F[k - 1]
  IN F[Len(w)]

Min(a, b) == IF a <= b THEN a ELSE b
\* Variant: the final min(score, 100) is missing.
ComputeScore_uncapped(loop_depth, recursive, expensive_calls, loop_issues) ==
  loop_depth * 12 + (IF recursive THEN 20 ELSE 0)
    + Len(expensive_calls) * 15 + Len(loop_issues) * 10

ComputeScore(loop_depth, recursive, expensive_calls, loop_issues) ==
  Min(loop_depth * 12 + (IF recursive THEN 20 ELSE 0)
        + Len(expensive_calls) * 15 + Len(loop_issues) * 10,
      100)

Reason(text, depth, labels) == [text |-> text, depth |-> depth, labels |-> labels]

BuildReasons(loop_depth, recursive, expensive_calls, loop_issues) ==
  (IF loop_depth > 0 THEN <<Reason("Loop nesting depth = ", loop_depth, <<>>)>> ELSE <<>>)
    \o (IF recursive THEN <<Reason("Recursion detected", 0, <<>>)>> ELSE <<>>)
    \o (IF expensive_calls # <<>>
          THEN <<Reason("Expensive calls: ", 0, expensive_calls)>> ELSE <<>>)
    \o [k \in 1..Len(loop_issues) |-> Reason(loop_issues[k], 0, <<>>)]
\* Variant: the default branch labels the function I/O.
Category_default_io(loop_depth, recursive, expensive_calls) ==
  IF "open" \in Range(expensive_calls) THEN "I/O"
  ELSE IF loop_depth >= 2 \/ recursive \/ "sorted" \in Range(expensive_calls)
            \/ "sort()" \in Range(expensive_calls)
       THEN "CPU"
       ELSE "I/O"

Category(loop_depth, recursive, expensive_calls) ==
  IF "open" \in Range(expensive_calls) THEN "I/O"
  ELSE IF loop_depth >= 2 \/ recursive \/ "sorted" \in Range(expensive_calls)
            \/ "sort()" \in Range(expensive_calls)
       THEN "CPU"
       ELSE "CPU"

\* The record appended to hotspots.  Nodes are numbered in source order, one
\* per line: a node's number stands for its lineno.
HotspotRecord(name, start_line, loop_depth, recursive, expensive_calls, loop_issues) ==
  [name |-> name,
   score |-> ComputeScore(loop_depth, recursive, expensive_calls, loop_issues),
   category |-> Category(loop_depth, recursive, expensive_calls),
   reasons |-> BuildReasons(loop_depth, recursive, expensive_calls, loop_issues),
   start_line |-> start_line]

Hotspot(t, fn, seed) ==
  HotspotRecord(t[fn].name, fn, get_max_loop_depth(t, fn), is_recursive(t, fn),
                detect_expensive_calls(t, fn, seed), detect_loop_issues(t, fn, seed))

\* Variant: a record is placed before the records of equal score.
InsertByScore_unstable(sorted, h) ==
  LET keep == { k \in 1..Len(sorted) : sorted[k].score > h.score }
      n == Cardinality(keep)
  IN SubSeq(sorted, 1, n) \o <<h>> \o SubSeq(sorted, n + 1, Len(sorted))

\* list.sort(key=score, reverse=True): stable, so records with equal keys
\* keep their order.
InsertByScore(sorted, h) ==
  LET keep == { k \in 1..Len(sorted) : sorted[k].score >= h.score }
      n == Cardinality(keep)
  IN SubSeq(sorted, 1, n) \o <<h>> \o SubSeq(sorted, n + 1, Len(sorted))

RECURSIVE SortByScore(_)
SortByScore(hs) ==
  IF hs = <<>> THEN <<>>
  ELSE InsertByScore(SortByScore(SubSeq(hs, 1, Len(hs) - 1)), hs[Len(hs)])

Summary(fc, hc) == [language |-> "python", function_count |-> fc, hotspot_count |-> hc]

NoResponse == [pending |-> TRUE]

Idle ==
  /\ hashseed \in Seeds
  /\ pc = "request"
  /\ function_nodes = <<>>
  /\ hotspots = <<>>
  /\ response = NoResponse
  /\ prev = NoResponse
  /\ runs = 1
AnalyzeSyntaxError ==
  /\ pc = "request"
  /\ req.outcome = "SyntaxError"
  /\ response' = [summary |-> Summary(0, 0), hotspots |-> <<>>,
                  error |-> [text |-> "SyntaxError at line", lineno |-> req.lineno,
                             msg |-> req.msg]]
  /\ pc' = "done"
  /\ UNCHANGED <<req, hashseed, function_nodes, hotspots, prev, runs>>

AnalyzeException ==
  /\ pc = "request"
  /\ req.outcome = "Exception"
  /\ response' = [summary |-> Summary(0, 0), hotspots |-> <<>>,
                  error |-> [text |-> "Invalid Python code:", lineno |-> 0,
                             msg |-> req.msg]]
  /\ pc' = "done"
  /\ UNCHANGED <<req, hashseed, function_nodes, hotspots, prev, runs>>

Respond(fns, hs, sorted) ==
  /\ function_nodes' = fns
  /\ hotspots' = hs
  /\ response' = [summary |-> Summary(Len(fns), Len(sorted)), hotspots |-> sorted]

Analyzed(t, fns) == [k \in 1..Len(fns) |-> Hotspot(t, fns[k], hashseed)]

RespondTo(fns, hs) == Respond(fns, hs, SortByScore(hs))

AnalyzeOk ==
  /\ pc = "request"
  /\ req.outcome = "ok"
  /\ RespondTo(ExtractFunctions(req.tree), Analyzed(req.tree, ExtractFunctions(req.tree)))
  /\ pc' = "done"
  /\ UNCHANGED <<req, hashseed, prev, runs>>

\* The same request is posted again; the server process may have been
\* restarted in between, which draws a new hash salt.
Resubmit ==
  /\ pc = "done"
  /\ runs < MaxRuns
  /\ runs' = runs + 1
  /\ prev' = response
  /\ hashseed' \in Seeds
  /\ pc' = "request"
  /\ function_nodes' = <<>>
  /\ hotspots' = <<>>
  /\ response' = NoResponse
  /\ UNCHANGED req

Init == Request(req) /\ Idle

Next == AnalyzeSyntaxError \/ AnalyzeException \/ AnalyzeOk

Spec == Init /\ [][Next]_vars

\* Two invocations on one request, for the comparison of their results.
InitRerun == ChainRequest(req) /\ Idle

NextRerun == Next \/ Resubmit

SpecRerun == InitRerun /\ [][NextRerun]_vars

(***************************************************************************)
(* Properties.  The structure of a tree is read off the parent pointers,   *)
(* independently of the traversals above.                                  *)
(***************************************************************************)
Returned == pc = "done" /\ req.outcome = "ok"

\* fn and every node below it.
Desc(t, fn) == { n \in 1..Len(t) : fn \in Ancestors(t, n) }

\* The loops on the path from fn down to and including n.
LoopsOnPath(t, fn, n) == { a \in Ancestors(t, n) \cap Desc(t, fn) : IsLoop(t, a) }

\* n lies below some loop of fn.
InsideLoop(t, fn, n) == \E l \in LoopsOnPath(t, fn, n) : l # n

Level(t, n) == Cardinality(Ancestors(t, n))

FunctionDefs(t) == { n \in 1..Len(t) : t[n].kind = "FunctionDef" }

NoDuplicates(s) == \A i, j \in 1..Len(s) : s[i] = s[j] => i = j

CallsName(t, fn, id) ==
  \E n \in Desc(t, fn) : t[n].kind = "Call" /\ t[n].func = "Name" /\ t[n].name = id

CallsAttr(t, fn, attr) ==
  \E n \in Desc(t, fn) : t[n].kind = "Call" /\ t[n].func = "Attribute" /\ t[n].name = attr

CONCAT == "string concatenation in loop (+=)"
APPEND == "list append in loop (.append)"

Capped(x) == IF x > 100 THEN 100 ELSE x

RawScore(t, fn) ==
  12 * get_max_loop_depth(t, fn) + (IF is_recursive(t, fn) THEN 20 ELSE 0)
    + 15 * Len(detect_expensive_calls(t, fn, hashseed))
    + 10 * Len(detect_loop_issues(t, fn, hashseed))

\* C1: every reported score is min(100, 12*loop_depth + 20*[recursive]
\* + 15*|expensive_calls| + 10*|loop_issues|), lies in 0..100, and raising
\* any one of the four signals by one step does not lower it; a function
\* without any signal scores 0, is CPU and has no reasons.
C1_Score ==
  Returned =>
    \A k \in 1..Len(hotspots) :
      LET t == req.tree
          fn == function_nodes[k]
          d == get_max_loop_depth(t, fn)
          r == is_recursive(t, fn)
          e == detect_expensive_calls(t, fn, hashseed)
          i == detect_loop_issues(t, fn, hashseed)
          sc == hotspots[k].score
      IN /\ sc = Capped(RawScore(t, fn))
         /\ sc \in 0..100
         /\ ComputeScore(d + 1, r, e, i) >= sc
         /\ ComputeScore(d, TRUE, e, i) >= sc
         /\ ComputeScore(d, r, Append(e, "more"), i) >= sc
         /\ ComputeScore(d, r, e, Append(i, "more")) >= sc
         /\ RawScore(t, fn) = 0 =>
              /\ sc = 0
              /\ hotspots[k].category = "CPU"
              /\ hotspots[k].reasons = <<>>

\* A function whose signals add up to more than 100 is reported with 100.
C1_Witness ==
  /\ Returned
  /\ \E k \in 1..Len(hotspots) :
       RawScore(req.tree, function_nodes[k]) > 100 /\ hotspots[k].score = 100

\* C2 as stated: the category is CPU or IO, and IO exactly when open is
\* called by bare name in the function.
C2_CategoryIO ==
  Returned =>
    \A k \in 1..Len(hotspots) :
      /\ hotspots[k].category \in {"CPU", "IO"}
      /\ hotspots[k].category = "IO" <=> CallsName(req.tree, function_nodes[k], "open")

\* C2 amended: the category is "CPU" or "I/O", and "I/O" exactly when open
\* is called by bare name in the function, whatever the other signals are.
C2_Category ==
  Returned =>
    \A k \in 1..Len(hotspots) :
      /\ hotspots[k].category \in {"CPU", "I/O"}
      /\ hotspots[k].category = "I/O" <=> CallsName(req.tree, function_nodes[k], "open")

\* A recursive function of loop depth 2 or more that calls sorted and open
\* is I/O, and one with the same signals but no open is CPU.
C2_Witness ==
  /\ Returned
  /\ \E k \in 1..Len(hotspots) :
       LET t == req.tree
           fn == function_nodes[k]
       IN /\ get_max_loop_depth(t, fn) >= 2
          /\ is_recursive(t, fn)
          /\ CallsName(t, fn, "sorted")
          /\ CallsName(t, fn, "open")
          /\ hotspots[k].category = "I/O"

\* The place of a record in the order of discovery.
Discovered(h) == CHOOSE k \in 1..Len(hotspots) : hotspots[k].start_line = h.start_line

\* C3: the returned hotspots are the per-function records, each once, by
\* descending score, records of equal score in the order of discovery.
C3_Sorted ==
  Returned =>
    LET out == response.hotspots
    IN /\ Len(out) = Len(hotspots)
       /\ Range(out) = Range(hotspots)
       /\ NoDuplicates(out)
       /\ \A i, j \in 1..Len(out) :
            i < j => /\ out[i].score >= out[j].score
                     /\ out[i].score = out[j].score => Discovered(out[i]) < Discovered(out[j])

\* Three functions, reordered by the sort, two of them with equal scores.
C3_Witness ==
  /\ Returned
  /\ Len(response.hotspots) >= 3
  /\ response.hotspots # hotspots
  /\ \E i, j \in 1..Len(response.hotspots) :
       i < j /\ response.hotspots[i].score = response.hotspots[j].score

PreOrder(t) == SelectSeq([k \in 1..Len(t) |-> k], LAMBDA n : t[n].kind = "FunctionDef")

\* C4 as stated: the extracted functions are the FunctionDef nodes in
\* depth-first pre-order.
C4_PreOrder == Returned => function_nodes = PreOrder(req.tree)

\* C4 amended: the extracted functions are the FunctionDef nodes of the
\* tree, nested ones included, each once, in breadth-first order: by level
\* of nesting in the tree, and within a level in source order.  An empty
\* tree yields the empty sequence.
C4_BreadthFirst ==
  Returned =>
    /\ Range(function_nodes) = FunctionDefs(req.tree)
    /\ NoDuplicates(function_nodes)
    /\ \A i, j \in 1..Len(function_nodes) :
         i < j =>
           LET a == function_nodes[i]
               b == function_nodes[j]
           IN \/ Level(req.tree, a) < Level(req.tree, b)
              \/ Level(req.tree, a) = Level(req.tree, b) /\ a < b
    /\ req.tree = <<>> => function_nodes = <<>>

\* A nested function is extracted after a later function of the outer level.
C4_Witness ==
  /\ Returned
  /\ \E i, j \in 1..Len(function_nodes) :
       /\ i < j
       /\ function_nodes[j] < function_nodes[i]
       /\ function_nodes[j] \in Desc(req.tree, 1)
       /\ function_nodes[i] \notin Desc(req.tree, 1)

\* C5: a failed parse yields a response with no hotspots, zero counts and an
\* error that, for a SyntaxError, carries a line number that is not None and
\* the message;
\* a response has an error only when the parse failed; a successful
\* response counts the extracted functions in both counters.
C5_ParseFailure ==
  pc = "done" =>
    /\ response # NoResponse
    /\ "error" \in DOMAIN response <=> req.outcome # "ok"
    /\ req.outcome # "ok" =>
         /\ response.hotspots = <<>>
         /\ response.summary.function_count = 0
         /\ response.summary.hotspot_count = 0
         /\ response.error.msg = req.msg
    /\ req.outcome = "SyntaxError" =>
         /\ response.error.lineno = req.lineno
         /\ response.error.lineno >= 1
    /\ req.outcome = "ok" =>
         /\ response.summary.function_count = Cardinality(FunctionDefs(req.tree))
         /\ response.summary.hotspot_count = response.summary.function_count
         /\ Len(response.hotspots) = response.summary.hotspot_count

\* C6: two invocations of analyze on the same source report the same
\* reasons for every function.
C6_SameReasons ==
  (pc = "done" /\ req.outcome = "ok" /\ prev # NoResponse) =>
    /\ Len(response.hotspots) = Len(prev.hotspots)
    /\ \A k \in 1..Len(response.hotspots) :
         response.hotspots[k].reasons = prev.hotspots[k].reasons

\* C7: detect_expensive_calls returns, without duplicates, exactly the
\* configured identifiers called by bare name in the function and "sort()"
\* when a method named sort is called; a repeated call adds nothing.
C7_ExpensiveCalls ==
  Returned =>
    \A k \in 1..Len(function_nodes) :
      LET t == req.tree
          fn == function_nodes[k]
          found == detect_expensive_calls(t, fn, hashseed)
      IN /\ NoDuplicates(found)
         /\ Range(found) \subseteq EXPENSIVE_FUNCS \cup {"sort()"}
         /\ \A id \in EXPENSIVE_FUNCS : id \in Range(found) <=> CallsName(t, fn, id)
         /\ "sort()" \in Range(found) <=> CallsAttr(t, fn, "sort")

\* A function that calls sorted twice and nothing else scores 15.
C7_Witness ==
  /\ Returned
  /\ \E k \in 1..Len(function_nodes) :
       LET t == req.tree
           fn == function_nodes[k]
       IN /\ Cardinality({ n \in Desc(t, fn) : t[n] = [CallName("sorted") EXCEPT !.parent = fn] }) = 2
          /\ detect_expensive_calls(t, fn, hashseed) = <<"sorted">>
          /\ hotspots[k].score = 15

\* C8: get_max_loop_depth is the largest number of For/While nodes on a
\* path from the function node down to a node of its subtree.
C8_LoopDepth ==
  Returned =>
    \A k \in 1..Len(function_nodes) :
      LET t == req.tree
          fn == function_nodes[k]
      IN get_max_loop_depth(t, fn)
           = SetMax({ Cardinality(LoopsOnPath(t, fn, n)) : n \in Desc(t, fn) })

\* Three while loops nested one inside the other give depth 3.
C8_Witness ==
  /\ Returned
  /\ req.tree = Chain(While, 3, <<>>, TRUE)
  /\ hotspots[1].reasons = <<Reason("Loop nesting depth = ", 3, <<>>)>>

\* C9: detect_loop_issues returns, without duplicates, the += label exactly
\* when an augmented assignment with Add lies below a loop of the function,
\* and the append label exactly when a call of a method named append does;
\* a function of loop depth 2 with the append issue alone scores 34.
C9_LoopIssues ==
  Returned =>
    \A k \in 1..Len(function_nodes) :
      LET t == req.tree
          fn == function_nodes[k]
          issues == detect_loop_issues(t, fn, hashseed)
      IN /\ NoDuplicates(issues)
         /\ Range(issues) \subseteq {CONCAT, APPEND}
         /\ CONCAT \in Range(issues) <=>
              \E n \in Desc(t, fn) :
                t[n].kind = "AugAssign" /\ t[n].name = "Add" /\ InsideLoop(t, fn, n)
         /\ APPEND \in Range(issues) <=>
              \E n \in Desc(t, fn) :
                /\ t[n].kind = "Call" /\ t[n].func = "Attribute" /\ t[n].name = "append"
                /\ InsideLoop(t, fn, n)
         /\ t = Chain(While, 2, <<CallAttr("append")>>, TRUE) =>
              /\ get_max_loop_depth(t, fn) = 2
              /\ issues = <<APPEND>>
              /\ hotspots[k].score = 34
              /\ hotspots[k].category = "CPU"

\* The two-level loop with .append in the inner body was analysed.
C9_Witness ==
  /\ Returned
  /\ req.tree = Chain(While, 2, <<CallAttr("append")>>, TRUE)
  /\ hotspots[1].score = 34

\* C10: is_recursive holds exactly when the function contains a call whose
\* callee is the bare name of the function.
C10_Recursive ==
  Returned =>
    \A k \in 1..Len(function_nodes) :
      LET t == req.tree
          fn == function_nodes[k]
      IN /\ is_recursive(t, fn) <=> CallsName(t, fn, t[fn].name)
         /\ (\E r \in Range(hotspots[k].reasons) : r.text = "Recursion detected")
              <=> CallsName(t, fn, t[fn].name)

\* A function that calls obj.f(...) and is not reported recursive.
C10_Witness ==
  /\ Returned
  /\ \E k \in 1..Len(function_nodes) :
       LET t == req.tree
           fn == function_nodes[k]
       IN /\ CallsAttr(t, fn, t[fn].name)
          /\ ~ is_recursive(t, fn)
          /\ hotspots[k].score = 0

====
